---- MODULE Spec2Model ----
(***************************************************************************)
(* Freemaltson's Whisky Nights (src/app.py): the session registry kept in  *)
(* data/sessions.json, the round:ordinal identifier scheme, host-name      *)
(* normalisation, whisky search and the Dan Murphy's enrichment batch.     *)
(*                                                                         *)
(* Python strings are modelled as sequences of one-character strings, so   *)
(* that strip, lower, split, "in" and concatenation are computed.  A URL   *)
(* is a sequence of opaque tokens.  None is the one-element sequence None, *)
(* whose element is no character.  A number (rrp, price) is its decimal    *)
(* digits.  A dict is a record over Fields; a missing key reads as None,   *)
(* as dict.get does.                                                       *)
(***************************************************************************)
EXTENDS Integers, Sequences, FiniteSets, TLC

VARIABLES
    sessions,   \* data/sessions.json: the persisted list data['sessions']
    library,    \* data/whisky-library.json: the reference library (read only)
    prev,       \* history: the persisted sessions before the last request
    arg,        \* the last request: its handler and its input
    resp        \* the last response (for enrich_all, with the lookups made)

vars == <<sessions, library, prev, arg, resp>>

-----------------------------------------------------------------------------
(* Python values *)

None == <<"None">>

\* bool(x) of a str or None
Truthy(x) == x # None /\ x # <<>>

Zero == <<"0">>

\* bool(x) of a number or None
TruthyNum(x) == x # None /\ x # Zero

\* x or ''
OrEmpty(x) == IF Truthy(x) THEN x ELSE <<>>

UpperChars == <<"A","B","C","D","E","F","G","H","I","J","K","L","M",
                "N","O","P","Q","R","S","T","U","V","W","X","Y","Z">>

LowerChars == <<"a","b","c","d","e","f","g","h","i","j","k","l","m",
                "n","o","p","q","r","s","t","u","v","w","x","y","z">>

Whitespace == {" ", "\t", "\n"}

LowerChar(c) ==
    IF \E i \in 1..Len(UpperChars) : UpperChars[i] = c
    THEN LowerChars[CHOOSE i \in 1..Len(UpperChars) : UpperChars[i] = c]
    ELSE c

\* str.lower
lower(s) == [i \in 1..Len(s) |-> LowerChar(s[i])]

RECURSIVE lstrip(_)
lstrip(s) ==
    IF s # <<>> /\ Head(s) \in Whitespace THEN lstrip(Tail(s)) ELSE s

RECURSIVE rstrip(_)
rstrip(s) ==
    IF s # <<>> /\ s[Len(s)] \in Whitespace
    THEN rstrip(SubSeq(s, 1, Len(s) - 1))
    ELSE s

\* str.strip
strip(s) == rstrip(lstrip(s))

\* sub in s
Contains(sub, s) ==
    \E i \in 0..(Len(s) - Len(sub)) : SubSeq(s, i + 1, i + Len(sub)) = sub

\* s.split(':')
RECURSIVE split(_)
split(s) ==
    IF \E i \in 1..Len(s) : s[i] = ":"
    THEN LET i == CHOOSE k \in 1..Len(s) :
                      s[k] = ":" /\ \A j \in 1..(k - 1) : s[j] # ":"
         IN  <<SubSeq(s, 1, i - 1)>> \o split(SubSeq(s, i + 1, Len(s)))
    ELSE <<s>>

Digits == <<"0","1","2","3","4","5","6","7","8","9">>

RECURSIVE StrNat(_)
StrNat(n) ==
    IF n < 10 THEN <<Digits[n + 1]>>
    ELSE StrNat(n \div 10) \o <<Digits[(n % 10) + 1]>>

\* str(n)
str(n) == IF n < 0 THEN <<"-">> \o StrNat(0 - n) ELSE StrNat(n)

-----------------------------------------------------------------------------
(* Identifier scheme *)

ROMAN == << <<"I">>, <<"I","I">>, <<"I","I","I">>, <<"I","V">>, <<"V">>,
            <<"V","I">>, <<"V","I","I">>, <<"V","I","I","I">>, <<"I","X">>,
            <<"X">>, <<"X","I">>, <<"X","I","I">> >>

roman_to_int(r) ==
    IF \E i \in 1..Len(ROMAN) : ROMAN[i] = r
    THEN CHOOSE i \in 1..Len(ROMAN) : ROMAN[i] = r
    ELSE 0

\* int_to_roman admitting 0, which indexes ROMAN[-1]
int_to_roman_from_zero(n) ==
    IF 0 <= n /\ n <= Len(ROMAN)
    THEN (IF n = 0 THEN ROMAN[Len(ROMAN)] ELSE ROMAN[n])
    ELSE str(n)

int_to_roman(n) ==
    IF 1 <= n /\ n <= Len(ROMAN) THEN ROMAN[n] ELSE str(n)

members_per_round == 7

\* f"{a}:{b}"
JoinId(a, b) == a \o <<":">> \o b

\* compute_next_id without the check for a token outside the alphabet
compute_next_id_unchecked(ss) ==
    LET validIdx == { i \in 1..Len(ss) :
                        Truthy(ss[i].id) /\ Contains(<<":">>, OrEmpty(ss[i].id)) }
    IN  IF validIdx = {} THEN JoinId(ROMAN[1], ROMAN[1])
        ELSE LET last  == ss[CHOOSE i \in validIdx : \A j \in validIdx : j <= i].id
                 parts == split(last)
             IN  IF Len(parts) # 2 THEN JoinId(ROMAN[1], ROMAN[1])
                 ELSE IF roman_to_int(parts[2]) >= members_per_round
                      THEN JoinId(int_to_roman(roman_to_int(parts[1]) + 1), ROMAN[1])
                      ELSE JoinId(parts[1], int_to_roman(roman_to_int(parts[2]) + 1))

compute_next_id(ss) ==
    LET validIdx == { i \in 1..Len(ss) :
                        Truthy(ss[i].id) /\ Contains(<<":">>, OrEmpty(ss[i].id)) }
    IN  IF validIdx = {} THEN JoinId(ROMAN[1], ROMAN[1])
        ELSE LET last  == ss[CHOOSE i \in validIdx : \A j \in validIdx : j <= i].id
                 parts == split(last)
             IN  IF Len(parts) # 2 THEN JoinId(ROMAN[1], ROMAN[1])
                 ELSE LET r  == parts[1]
                          s  == parts[2]
                          ri == roman_to_int(r)
                          si == roman_to_int(s)
                      IN  IF ri = 0 \/ si = 0 THEN JoinId(ROMAN[1], ROMAN[1])
                          ELSE IF si >= members_per_round
                               THEN JoinId(int_to_roman(ri + 1), ROMAN[1])
                               ELSE JoinId(r, int_to_roman(si + 1))

-----------------------------------------------------------------------------
(* Host aliases *)

HOST_ALIASES ==
    { << <<"b","r","a","s","s">>,         <<"B","r","a","a","s">> >>,
      << <<"b","r","a","a","s">>,         <<"B","r","a","a","s">> >>,
      << <<"w","i","l","l","i","e">>,     <<"J","o","e","s","s">> >>,
      << <<"w","i","l","l","i","e"," ">>, <<"J","o","e","s","s">> >>,
      << <<"f","i","d","d","y"," ">>,     <<"F","i","d","d","y">> >>,
      << <<"j","o","e","s","s">>,         <<"J","o","e","s","s">> >> }

\* HOST_ALIASES.get(key, default)
AliasGet(key, default) ==
    IF \E e \in HOST_ALIASES : e[1] = key
    THEN (CHOOSE e \in HOST_ALIASES : e[1] = key)[2]
    ELSE default

\* normalise_host looking the alias up before trimming
normalise_host_untrimmed_key(name) ==
    IF ~Truthy(name) THEN name
    ELSE AliasGet(lower(name), strip(name))

normalise_host(name) ==
    IF ~Truthy(name) THEN name
    ELSE AliasGet(lower(strip(name)), strip(name))

-----------------------------------------------------------------------------
(* Storage *)

Fields == {"id", "host", "whisky", "date", "region", "rrp", "image_url", "dm_url"}

\* json.load, then every host normalised
load_data(file) ==
    [i \in 1..Len(file) |-> [file[i] EXCEPT !.host = normalise_host(@)]]

-----------------------------------------------------------------------------
(* Registry *)

Sentinel == 999

\* add_session.sort_key
sort_key(s) ==
    LET sid == OrEmpty(s.id)
    IN  IF Contains(<<":">>, sid)
        THEN <<roman_to_int(split(sid)[1]), roman_to_int(split(sid)[2])>>
        ELSE <<Sentinel, Sentinel>>

\* tuple comparison
PairLess(a, b) == a[1] < b[1] \/ (a[1] = b[1] /\ a[2] < b[2])

\* the place of seq[i] after a stable ascending sort on keys
SortRank(keys, i) ==
    1 + Cardinality({ j \in 1..Len(keys) :
                        PairLess(keys[j], keys[i]) \/ (keys[j] = keys[i] /\ j < i) })

\* list.sort(key=sort_key): stable, ascending
SortSessions(seq) ==
    LET keys == [i \in 1..Len(seq) |-> sort_key(seq[i])]
    IN  [p \in 1..Len(seq) |->
            seq[CHOOSE i \in 1..Len(seq) : SortRank(keys, i) = p]]

\* add_session appending to a fresh list instead of the loaded one
add_stored_fresh_list(file, session) ==
    LET data == load_data(file)
        s1   == [session EXCEPT !.host = normalise_host(@)]
        s2   == IF ~Truthy(s1.id)
                THEN [s1 EXCEPT !.id = compute_next_id(data)]
                ELSE s1
    IN  [saved |-> SortSessions(<<s2>>), session |-> s2]

\* add_session storing the host as submitted
add_stored_raw_host(file, session) ==
    LET data == load_data(file)
        s2   == IF ~Truthy(session.id)
                THEN [session EXCEPT !.id = compute_next_id(data)]
                ELSE session
    IN  [saved |-> SortSessions(Append(data, s2)), session |-> s2]

\* add_session: the list written by save_data and the session returned
add_stored(file, session) ==
    LET data == load_data(file)
        s1   == [session EXCEPT !.host = normalise_host(@)]
        s2   == IF ~Truthy(s1.id)
                THEN [s1 EXCEPT !.id = compute_next_id(data)]
                ELSE s1
    IN  [saved |-> SortSessions(Append(data, s2)), session |-> s2]

\* dict.update: a patch is a function from some of the keys to values
Patched(s, updates, f) == IF f \in DOMAIN updates THEN updates[f] ELSE s[f]

dict_update(s, updates) ==
    [id        |-> Patched(s, updates, "id"),
     host      |-> Patched(s, updates, "host"),
     whisky    |-> Patched(s, updates, "whisky"),
     date      |-> Patched(s, updates, "date"),
     region    |-> Patched(s, updates, "region"),
     rrp       |-> Patched(s, updates, "rrp"),
     image_url |-> Patched(s, updates, "image_url"),
     dm_url    |-> Patched(s, updates, "dm_url")]

\* update_session saving what it loaded although no session matched
update_result_resaved(file, session_id, updates) ==
    LET data  == load_data(file)
        match == { i \in 1..Len(data) : data[i].id = session_id }
    IN  IF match = {}
        THEN [status |-> 404, saved |-> data, session |-> None]
        ELSE LET i == CHOOSE k \in match : \A j \in match : k <= j
                 s == dict_update(data[i], updates)
             IN  [status |-> 200, saved |-> [data EXCEPT ![i] = s], session |-> s]

\* update_session: status, the file afterwards and the session returned
update_result(file, session_id, updates) ==
    LET data  == load_data(file)
        match == { i \in 1..Len(data) : data[i].id = session_id }
    IN  IF match = {}
        THEN [status |-> 404, saved |-> file, session |-> None]
        ELSE LET i == CHOOSE k \in match : \A j \in match : k <= j
                 s == dict_update(data[i], updates)
             IN  [status |-> 200, saved |-> [data EXCEPT ![i] = s], session |-> s]

\* next_session: the id and the hosts derived from history, as a set (the file
\* holds no members list; the date returned is not modelled)
next_result(file) ==
    LET data == load_data(file)
    IN  [id    |-> compute_next_id(data),
         hosts |-> { normalise_host(data[i].host) :
                       i \in { k \in 1..Len(data) : Truthy(data[k].host) } }]

\* get_data: the sessions with a whisky or a host
get_data_result(file) ==
    SelectSeq(load_data(file), LAMBDA s : Truthy(s.whisky) \/ Truthy(s.host))

-----------------------------------------------------------------------------
(* Whisky search *)

MinQuery == 2

SearchLimit == 10

\* a missing region reads as None here, '' in the code
LocalEntry(s) ==
    [whisky |-> OrEmpty(s.whisky), region |-> s.region, rrp |-> s.rrp,
     image_url |-> s.image_url, source |-> "local"]

LibraryEntry(e) ==
    [whisky |-> e.whisky, region |-> e.region, type |-> e.type, rrp |-> None,
     image_url |-> None, source |-> "library"]

\* one pass of search_whisky over the candidate entries, in their order
RECURSIVE search_pass(_, _, _)
search_pass(entries, ql, acc) ==
    IF entries = <<>> THEN acc
    ELSE LET e  == Head(entries)
             wl == lower(e.whisky)
         IN  search_pass(Tail(entries), ql,
                 IF Contains(ql, wl) /\ wl \notin acc.seen
                 THEN [seen |-> acc.seen \cup {wl}, results |-> Append(acc.results, e)]
                 ELSE acc)

\* results[:10]
Truncate(results, n) == SubSeq(results, 1, IF Len(results) < n THEN Len(results) ELSE n)

\* search_whisky accepting a query of one character
search_whisky_short_query(file, lib, rawq) ==
    LET q == strip(rawq)
    IN  IF ~Truthy(q) THEN <<>>
        ELSE LET data  == load_data(file)
                 ql    == lower(q)
                 local == search_pass([i \in 1..Len(data) |-> LocalEntry(data[i])], ql,
                                      [seen |-> {}, results |-> <<>>])
                 both  == search_pass([i \in 1..Len(lib) |-> LibraryEntry(lib[i])], ql,
                                      local)
             IN  Truncate(both.results, SearchLimit)

\* search_whisky whose library pass starts from an empty seen set
search_whisky_fresh_seen(file, lib, rawq) ==
    LET q == strip(rawq)
    IN  IF ~Truthy(q) \/ Len(q) < MinQuery THEN <<>>
        ELSE LET data  == load_data(file)
                 ql    == lower(q)
                 local == search_pass([i \in 1..Len(data) |-> LocalEntry(data[i])], ql,
                                      [seen |-> {}, results |-> <<>>])
                 libr  == search_pass([i \in 1..Len(lib) |-> LibraryEntry(lib[i])], ql,
                                      [seen |-> {}, results |-> <<>>])
             IN  Truncate(local.results \o libr.results, SearchLimit)

\* search_whisky: the list returned for the raw query string
search_whisky_result(file, lib, rawq) ==
    LET q == strip(rawq)
    IN  IF ~Truthy(q) \/ Len(q) < MinQuery THEN <<>>
        ELSE LET data  == load_data(file)
                 ql    == lower(q)
                 local == search_pass([i \in 1..Len(data) |-> LocalEntry(data[i])], ql,
                                      [seen |-> {}, results |-> <<>>])
                 both  == search_pass([i \in 1..Len(lib) |-> LibraryEntry(lib[i])], ql,
                                      local)
             IN  Truncate(both.results, SearchLimit)

-----------------------------------------------------------------------------
(* Enrichment *)

DM_BASE == <<"https://www.danmurphys.com.au">>

NoResult == [found |-> FALSE]

\* lookup_dan_murphys over the products _fetch_dm_products returned; the
\* result None is NoResult
lookup_dan_murphys(products) ==
    IF products = <<>> THEN NoResult
    ELSE LET p == products[1]
         IN  [found |-> TRUE, dm_url |-> DM_BASE \o p.url, price |-> p.price,
              image_url |-> p.image_url]

\* the test without its "if not s.get('whisky')" exit
Eligible_ignoring_whisky(s) ==
    ~(Truthy(s.image_url) /\ TruthyNum(s.rrp) /\ Truthy(s.dm_url))

\* whether enrich_all looks the session up
Eligible(s) ==
    /\ Truthy(s.whisky)
    /\ ~(Truthy(s.image_url) /\ TruthyNum(s.rrp) /\ Truthy(s.dm_url))

\* the merge writing image_url whenever the lookup has one
enrich_merge_overwriting(s, result) ==
    LET s1 == IF Truthy(result.image_url)
              THEN [s EXCEPT !.image_url = result.image_url] ELSE s
        s2 == IF ~TruthyNum(s1.rrp) /\ TruthyNum(result.price)
              THEN [s1 EXCEPT !.rrp = result.price] ELSE s1
    IN  IF Truthy(result.dm_url) THEN [s2 EXCEPT !.dm_url = result.dm_url] ELSE s2

\* the body of enrich_all's "if result:" branch
enrich_merge(s, result) ==
    LET s1 == IF ~Truthy(s.image_url) /\ Truthy(result.image_url)
              THEN [s EXCEPT !.image_url = result.image_url] ELSE s
        s2 == IF ~TruthyNum(s1.rrp) /\ TruthyNum(result.price)
              THEN [s1 EXCEPT !.rrp = result.price] ELSE s1
    IN  IF Truthy(result.dm_url) THEN [s2 EXCEPT !.dm_url = result.dm_url] ELSE s2

\* one iteration of enrich_all's loop
enrich_one(s, result) ==
    IF ~Eligible(s) THEN [session |-> s, status |-> "skipped"]
    ELSE IF result.found THEN [session |-> enrich_merge(s, result), status |-> "enriched"]
    ELSE [session |-> s, status |-> "failed"]

\* the loop leaving at the first lookup that returns nothing
RECURSIVE enrich_loop_aborting(_, _)
enrich_loop_aborting(fetched, acc) ==
    IF acc.i > Len(acc.data) THEN acc
    ELSE LET one == enrich_one(acc.data[acc.i], lookup_dan_murphys(fetched[acc.i]))
         IN  IF one.status = "failed"
             THEN [acc EXCEPT !.failed = @ + 1,
                              !.status = @ \o [k \in 1..(Len(acc.data) - acc.i + 1) |-> "failed"]]
             ELSE enrich_loop_aborting(fetched,
                 [i        |-> acc.i + 1,
                  data     |-> [acc.data EXCEPT ![acc.i] = one.session],
                  enriched |-> acc.enriched + (IF one.status = "enriched" THEN 1 ELSE 0),
                  failed   |-> acc.failed,
                  status   |-> Append(acc.status, one.status)])

\* one iteration counting a session it passes over as failed
enrich_step_counting_skipped(acc, products) ==
    LET one == enrich_one(acc.data[acc.i], lookup_dan_murphys(products))
    IN  [i        |-> acc.i + 1,
         data     |-> [acc.data EXCEPT ![acc.i] = one.session],
         enriched |-> acc.enriched + (IF one.status = "enriched" THEN 1 ELSE 0),
         failed   |-> acc.failed + (IF one.status = "enriched" THEN 0 ELSE 1),
         status   |-> Append(acc.status, one.status)]

\* the body of enrich_all's for loop for session acc.i; products is what
\* _fetch_dm_products returns for it
enrich_step(acc, products) ==
    LET one == enrich_one(acc.data[acc.i], lookup_dan_murphys(products))
    IN  [i        |-> acc.i + 1,
         data     |-> [acc.data EXCEPT ![acc.i] = one.session],
         enriched |-> acc.enriched + (IF one.status = "enriched" THEN 1 ELSE 0),
         failed   |-> acc.failed + (IF one.status = "failed" THEN 1 ELSE 0),
         status   |-> Append(acc.status, one.status)]

\* enrich_all's for loop from session acc.i on; fetched[i] is what
\* _fetch_dm_products returns for session i
RECURSIVE enrich_loop(_, _)
enrich_loop(fetched, acc) ==
    IF acc.i > Len(acc.data) THEN acc
    ELSE enrich_loop(fetched, enrich_step(acc, fetched[acc.i]))

\* enrich_all: the list saved, the counts returned and each session's branch
enrich_all_result(file, fetched) ==
    enrich_loop(fetched, [i |-> 1, data |-> load_data(file), enriched |-> 0,
                          failed |-> 0, status |-> <<>>])

-----------------------------------------------------------------------------
(* Handlers: one action per request *)

NoRequest == [op |-> "none"]

add_session(session) ==
    \E r \in {add_stored(sessions, session)} :
        /\ sessions' = r.saved
        /\ prev' = sessions
        /\ arg' = [op |-> "add_session", session |-> session]
        /\ resp' = [op |-> "add_session", status |-> 200, session |-> r.session]
        /\ UNCHANGED library

update_session(session_id, updates) ==
    \E r \in {update_result(sessions, session_id, updates)} :
        /\ sessions' = r.saved
        /\ prev' = sessions
        /\ arg' = [op |-> "update_session", session_id |-> session_id,
                   updates |-> updates]
        /\ resp' = [op |-> "update_session", status |-> r.status,
                    session |-> r.session]
        /\ UNCHANGED library

next_session ==
    \E r \in {next_result(sessions)} :
        /\ prev' = sessions
        /\ arg' = [op |-> "next_session"]
        /\ resp' = [op |-> "next_session", status |-> 200, id |-> r.id,
                    hosts |-> r.hosts]
        /\ UNCHANGED <<sessions, library>>

get_data ==
    /\ prev' = sessions
    /\ arg' = [op |-> "get_data"]
    /\ resp' = [op |-> "get_data", status |-> 200,
                sessions |-> get_data_result(sessions)]
    /\ UNCHANGED <<sessions, library>>

search_whisky(rawq) ==
    /\ prev' = sessions
    /\ arg' = [op |-> "search_whisky", q |-> rawq]
    /\ resp' = [op |-> "search_whisky", status |-> 200,
                results |-> search_whisky_result(sessions, library, rawq)]
    /\ UNCHANGED <<sessions, library>>

\* The results of the lookups enrich_all makes: none for a session it skips
Lookups(file, fetched) ==
    [i \in 1..Len(file) |->
        IF Eligible(file[i]) THEN lookup_dan_murphys(fetched[i]) ELSE NoResult]

enrich_all(fetched) ==
    \E r \in {enrich_all_result(sessions, fetched)} :
        /\ sessions' = r.data
        /\ prev' = sessions
        /\ arg' = [op |-> "enrich_all", results |-> Lookups(sessions, fetched)]
        /\ resp' = [op |-> "enrich_all", status |-> 200, enriched |-> r.enriched,
                    failed |-> r.failed, branch |-> r.status]
        /\ UNCHANGED library

-----------------------------------------------------------------------------
(* Inputs *)

Sess(id, host, whisky, rrp, image_url, dm_url) ==
    [id |-> id, host |-> host, whisky |-> whisky, date |-> None, region |-> None,
     rrp |-> rrp, image_url |-> image_url, dm_url |-> dm_url]

IdOnly(id) == Sess(id, None, None, None, None, None)

SeqsUpTo(S, n) == UNION { [1..k -> S] : k \in 0..n }

\* an id is valid when it is two alphabet tokens joined by the separator
ValidId(id) ==
    /\ Truthy(id)
    /\ Len(split(id)) = 2
    /\ roman_to_int(split(id)[1]) # 0
    /\ roman_to_int(split(id)[2]) # 0

Decoded(id) == <<roman_to_int(split(id)[1]), roman_to_int(split(id)[2])>>

Rendered(r, s) == JoinId(int_to_roman(r), int_to_roman(s))

ValidIds == { JoinId(ROMAN[r], ROMAN[s]) : r \in 1..Len(ROMAN), s \in 1..Len(ROMAN) }

\* missing, empty, no separator, a token outside the alphabet, three parts
InvalidIds ==
    { None, <<>>, <<"I","V">>, <<"Q",":","I","I">>, <<"1","3",":","I">>,
      <<"I",":","i">>, <<"I",":","I",":","I">>, <<":">> }

-----------------------------------------------------------------------------
(* SpecAlloc: /api/next-session over registries drawn from bounded sets *)

MaxPrefix == 1

MaxSuffix == 1

MaxInvalid == 2

PrefixIds == { <<"I",":","I">>, <<"X","I","I",":","X","I","I">>, None }

AllocRegistries ==
    { [i \in 1..Len(ids) |-> IdOnly(ids[i])] :
        ids \in { p \o <<v>> \o q : p \in SeqsUpTo(PrefixIds, MaxPrefix),
                                    v \in ValidIds,
                                    q \in SeqsUpTo(InvalidIds, MaxSuffix) }
                \cup SeqsUpTo(InvalidIds, MaxInvalid) }

InitAlloc ==
    /\ sessions \in AllocRegistries
    /\ library = <<>>
    /\ prev = sessions
    /\ arg = NoRequest
    /\ resp = NoRequest

NextAlloc == next_session

SpecAlloc == InitAlloc /\ [][NextAlloc]_vars

\* the last session, in list order, whose id is valid
HasValid(ss) == \E i \in 1..Len(ss) : ValidId(ss[i].id)

LastValid(ss) ==
    ss[CHOOSE i \in 1..Len(ss) :
          ValidId(ss[i].id) /\ \A j \in (i + 1)..Len(ss) : ~ValidId(ss[j].id)].id

Successor(r, s) ==
    IF s < members_per_round THEN Rendered(r, s + 1) ELSE Rendered(r + 1, 1)

\* C1: over every registry whose last valid id is (r, s), r and s in 1..12,
\* next-id allocation returns the rendered (r, s+1) when s < 7 and the rendered
\* (r+1, 1) when s >= 7.
C1_SuccessorOfLastValid ==
    (resp.op = "next_session" /\ HasValid(prev)) =>
        resp.id = Successor(Decoded(LastValid(prev))[1], Decoded(LastValid(prev))[2])

\* C2: over an empty registry, or one in which no session has a valid id,
\* next-id allocation returns "I:I".
C2_FirstIdWhenNoneValid ==
    (resp.op = "next_session" /\ ~HasValid(prev)) => resp.id = <<"I",":","I">>

C2_Witness ==
    /\ resp.op = "next_session"
    /\ ~HasValid(prev)
    /\ \E i \in 1..Len(prev) : Contains(<<":">>, OrEmpty(prev[i].id))
    /\ \E i \in 1..Len(prev) : ~Truthy(prev[i].id)

-----------------------------------------------------------------------------
(* SpecHost: normalise_host applied, and applied again to its own result, as *)
(* add_session and every later load_data do to a stored host                 *)

MaxPad == 1

MaxApply == 2

UpperChar(c) ==
    IF \E i \in 1..Len(LowerChars) : LowerChars[i] = c
    THEN UpperChars[CHOOSE i \in 1..Len(LowerChars) : LowerChars[i] = c]
    ELSE c

HostWords ==
    { <<>>, <<"b","r","a","s","s">>, <<"b","r","a","a","s">>,
      <<"w","i","l","l","i","e">>, <<"f","i","d","d","y">>,
      <<"j","o","e","s","s">>, <<"b","o","b">>, <<"d","e"," ","b","o","b">> }

\* lower case, capitalised, upper case, second letter raised
Cased(w) ==
    { [i \in 1..Len(w) |-> IF i \in U THEN UpperChar(w[i]) ELSE w[i]] :
        U \in { {}, {1}, {2}, 1..Len(w) } }

Pad(n) == [i \in 1..n |-> " "]

HostInputs ==
    { None, <<"\t">> }
    \cup { Pad(l) \o c \o Pad(r) :
             c \in UNION { Cased(w) : w \in HostWords },
             l \in 0..MaxPad, r \in 0..MaxPad }

InitHost ==
    /\ sessions = <<>>
    /\ library = <<>>
    /\ prev = <<>>
    /\ arg \in { [op |-> "normalise_host", name |-> n] : n \in HostInputs }
    /\ resp = NoRequest

NormaliseFirst ==
    /\ resp = NoRequest
    /\ resp' = [op |-> "normalise_host", out |-> <<normalise_host(arg.name)>>]
    /\ UNCHANGED <<sessions, library, prev, arg>>

NormaliseAgain ==
    /\ resp.op = "normalise_host"
    /\ Len(resp.out) < MaxApply
    /\ resp' = [resp EXCEPT !.out = Append(@, normalise_host(@[Len(@)]))]
    /\ UNCHANGED <<sessions, library, prev, arg>>

NextHost == NormaliseFirst \/ NormaliseAgain

SpecHost == InitHost /\ [][NextHost]_vars

\* C5: normalise_host is idempotent: applied to its own result, for every
\* input (null, empty, whitespace only, an alias in any case, padded with
\* whitespace, or an untracked name), it returns that result unchanged.
C5_NormaliseIdempotent ==
    resp.op = "normalise_host" =>
        \A i \in 1..Len(resp.out) : resp.out[i] = resp.out[1]

C5_Witness ==
    /\ resp.op = "normalise_host"
    /\ Len(resp.out) >= 2
    /\ resp.out[1] # arg.name
    /\ resp.out[1] # strip(arg.name)
    /\ lower(arg.name) # arg.name

-----------------------------------------------------------------------------
(* SpecSearch: /api/search-whisky over registries and libraries drawn from *)
(* bounded sets                                                            *)

MaxLocal == 2

MaxLib == 2

MaxOver == 1

Whisky(name) == Sess(None, None, name, None, None, None)

Lib(name) == [whisky |-> name, region |-> <<>>, type |-> <<>>]

LocalNames ==
    { None, <<"O","b">>, <<"o","B">>, <<"O","b","a","n">> }

LibNames ==
    { <<"O","b">>, <<"O","B">>, <<"T","a","o","b">> }

\* names that all contain "ob" and differ when lowercased
ManyNames ==
    [i \in 1..(SearchLimit + MaxOver) |-> <<"O","b",LowerChars[i]>>]

SearchRegistries ==
    { [i \in 1..Len(ns) |-> Whisky(ns[i])] : ns \in SeqsUpTo(LocalNames, MaxLocal) }

SearchLibraries ==
    { [i \in 1..Len(ns) |-> Lib(ns[i])] : ns \in SeqsUpTo(LibNames, MaxLib) }

LongRegistries ==
    { [i \in 1..n |-> Whisky(ManyNames[i])] :
        n \in (SearchLimit - 1)..(SearchLimit + MaxOver) }

LongLibraries ==
    { <<Lib(ManyNames[k]), Lib(<<"O","b">>)>> : k \in (SearchLimit - 1)..(SearchLimit + MaxOver) }

Queries ==
    { <<>>, <<" ">>, <<"o">>, <<" ","O","\t">>, <<"o","b">>, <<" ","O","B"," ">>,
      <<"b","a">>, <<"z","z">> }

InitSearch ==
    /\ \/ sessions \in SearchRegistries /\ library \in SearchLibraries
       \/ sessions \in LongRegistries /\ library \in LongLibraries
    /\ prev = sessions
    /\ arg = NoRequest
    /\ resp = NoRequest

NextSearch == \E q \in Queries : search_whisky(q)

SpecSearch == InitSearch /\ [][NextSearch]_vars

\* the lowercased whisky names the trimmed query matches in a list of entries
Matched(entries, rawq) ==
    { lower(OrEmpty(entries[i].whisky)) :
        i \in { k \in 1..Len(entries) :
                  Contains(lower(strip(rawq)), lower(OrEmpty(entries[k].whisky))) } }

EntriesFor(results, n) == { k \in 1..Len(results) : lower(results[k].whisky) = n }

\* C6 as stated: a query of at least two characters that matches one name in
\* both the session history and the library gets exactly one entry for it,
\* with source "local", and no two entries share a lowercased name.
C6_ExactlyOneLocal ==
    (resp.op = "search_whisky" /\ Len(strip(arg.q)) >= MinQuery) =>
        /\ \A n \in Matched(prev, arg.q) \cap Matched(library, arg.q) :
              /\ Cardinality(EntriesFor(resp.results, n)) = 1
              /\ \A k \in EntriesFor(resp.results, n) : resp.results[k].source = "local"
        /\ \A j, k \in 1..Len(resp.results) :
              lower(resp.results[j].whisky) = lower(resp.results[k].whisky) => j = k

\* the distinct matched names that session history holds before name n
EarlierLocal(n, rawq) ==
    LET first == CHOOSE i \in 1..Len(prev) :
                    /\ lower(OrEmpty(prev[i].whisky)) = n
                    /\ \A j \in 1..(i - 1) : lower(OrEmpty(prev[j].whisky)) # n
    IN  Matched(SubSeq(prev, 1, first - 1), rawq)

\* C6 amended: such a query gets at most one entry for the name, sourced
\* "local" when present, and exactly one when fewer than 10 distinct matched
\* names precede it in the session history; no two entries of a result share
\* a lowercased name.
C6_AtMostOneLocal ==
    (resp.op = "search_whisky" /\ Len(strip(arg.q)) >= MinQuery) =>
        /\ \A n \in Matched(prev, arg.q) \cap Matched(library, arg.q) :
              /\ Cardinality(EntriesFor(resp.results, n)) <= 1
              /\ \A k \in EntriesFor(resp.results, n) : resp.results[k].source = "local"
              /\ Cardinality(EarlierLocal(n, arg.q)) < SearchLimit
                    => Cardinality(EntriesFor(resp.results, n)) = 1
        /\ \A j, k \in 1..Len(resp.results) :
              lower(resp.results[j].whisky) = lower(resp.results[k].whisky) => j = k

C6_Witness ==
    /\ resp.op = "search_whisky"
    /\ \E i \in 1..Len(prev), j \in 1..Len(library) :
          /\ prev[i].whisky # library[j].whisky
          /\ lower(OrEmpty(prev[i].whisky)) = lower(library[j].whisky)
          /\ Cardinality(EntriesFor(resp.results, lower(library[j].whisky))) = 1
    /\ \E k \in 1..Len(resp.results) : resp.results[k].source = "library"

\* C7: a query whose trimmed length is below 2 returns the empty list,
\* whatever the registry and the library hold.
C7_ShortQueryEmpty ==
    (resp.op = "search_whisky" /\ Len(strip(arg.q)) < 2) => resp.results = <<>>

C7_Witness ==
    /\ resp.op = "search_whisky"
    /\ Len(strip(arg.q)) = 1
    /\ Len(arg.q) >= 2
    /\ Matched(prev, arg.q) # {}
    /\ Matched(library, arg.q) # {}
    /\ resp.results = <<>>

-----------------------------------------------------------------------------
(* Spec: the registry from an empty file under add, update, next-session and *)
(* get_data requests                                                         *)

MaxSessions == 3

AddIds == { None, <<"I",":","I">>, <<"1","3",":","I">>, <<"I","V">> }

AddInputs ==
    { Sess(id, <<" ","b","r","a","s","s">>, <<"O","b">>, None, None, None) : id \in AddIds }

UpdateIds ==
    { <<"I",":","I">>, <<"I",":","I","I">>, <<"q",":","I","I">> }

Patches ==
    { <<>>,
      "id" :> <<"I",":","I">>,
      "id" :> <<"Q",":","I","I">>,
      "id" :> None,
      "host" :> <<"b","r","a","s","s"," ">> }

Init ==
    /\ sessions = <<>>
    /\ library = <<>>
    /\ prev = <<>>
    /\ arg = NoRequest
    /\ resp = NoRequest

Next ==
    \/ \E s \in AddInputs : Len(sessions) < MaxSessions /\ add_session(s)
    \/ \E id \in UpdateIds, p \in Patches : update_session(id, p)
    \/ next_session
    \/ get_data

Spec == Init /\ [][Next]_vars

\* C3: in every state reached from the empty registry by adds (with or
\* without a supplied id) and updates (with any patch), no two sessions with
\* valid ids carry the same id.
C3_ValidIdsUnique ==
    \A i, j \in 1..Len(sessions) :
        (ValidId(sessions[i].id) /\ sessions[i].id = sessions[j].id) => i = j

\* C4: right after an add, every session whose id is invalid or missing
\* stands after every session whose id is valid.
C4_InvalidSortLast ==
    resp.op = "add_session" =>
        \A i, j \in 1..Len(sessions) :
            (~ValidId(sessions[i].id) /\ ValidId(sessions[j].id)) => j < i

\* C9: an update whose id equals, as a string, the id of no session returns
\* NotFound (404) and leaves the persisted registry as it was.
C9_UpdateNotFound ==
    (arg.op = "update_session"
        /\ \A i \in 1..Len(prev) : prev[i].id # arg.session_id) =>
        (resp.status = 404 /\ sessions = prev)

C9_Witness ==
    /\ arg.op = "update_session"
    /\ resp.status = 404
    /\ \E i \in 1..Len(prev) : prev[i].host # normalise_host(prev[i].host)
    /\ \E i \in 1..Len(prev) :
          prev[i].id # arg.session_id /\ sort_key(prev[i]) = sort_key(IdOnly(arg.session_id))

-----------------------------------------------------------------------------
(* SpecEnrich: the registry from an empty file under add, update and        *)
(* enrich-all requests, the catalogue answering each lookup as it pleases    *)

MaxEnrich == 2

OldImage == <<"https://img/old.png">>

NewImage == <<"https://img/new.png">>

OldLink == <<"https://www.danmurphys.com.au", "/old">>

EnrichInputs ==
    { Sess(None, <<"B","o","b">>, <<"O","b">>, None, None, None),
      Sess(None, <<"B","o","b">>, <<"O","b">>, None, OldImage, OldLink),
      Sess(None, <<"B","o","b">>, <<"O","b">>, <<"3","0">>, OldImage, OldLink),
      Sess(None, <<"B","o","b">>, None, None, None, None) }

\* what _fetch_dm_products may return: no product, or a top product
Fetched ==
    { <<>>,
      <<[url |-> <<"/new">>, price |-> <<"4","5">>, image_url |-> NewImage]>>,
      <<[url |-> <<>>, price |-> Zero, image_url |-> None]>> }

NextEnrich ==
    \/ \E s \in EnrichInputs : Len(sessions) < MaxEnrich /\ add_session(s)
    \/ update_session(<<"I",":","I">>, "host" :> <<"b","r","a","s","s"," ">>)
    \/ \E f \in [1..Len(sessions) -> Fetched] : enrich_all(f)

SpecEnrich == Init /\ [][NextEnrich]_vars

\* session i was looked up and the lookup returned a result
LookedUp(i) == Eligible(prev[i]) /\ arg.results[i].found

\* session i was looked up and the lookup returned nothing
LookupFailed(i) == Eligible(prev[i]) /\ ~arg.results[i].found

-----------------------------------------------------------------------------
(* SpecTrace: two submissions without id, the preview and the search, over *)
(* an empty registry and a library drawn from a bounded set                 *)

MaxTrace == 3

Talisker10 == <<"T","a","l","i","s","k","e","r"," ","1","0">>

Oban14 == <<"O","b","a","n"," ","1","4">>

TaliskerStorm == <<"T","a","l","i","s","k","e","r"," ","S","t","o","r","m">>

TaliskerInput == Sess(None, <<"b","r","a","s","s">>, Talisker10, None, None, None)

ObanInput == Sess(None, <<"J","o","e","s","s">>, Oban14, None, None, None)

StoredTalisker ==
    Sess(<<"I",":","I">>, <<"B","r","a","a","s">>, Talisker10, None, None, None)

StoredOban ==
    Sess(<<"I",":","I","I">>, <<"J","o","e","s","s">>, Oban14, None, None, None)

TraceLibraries ==
    { <<>>,
      <<Lib(Oban14)>>,
      <<Lib(lower(Talisker10))>>,
      <<Lib(Talisker10), Lib(TaliskerStorm)>> }

TraceQueries ==
    { <<"t","a","l","i","s","k","e","r">>, <<" ","O","B","A","N"," ">>, <<"1">> }

InitTrace ==
    /\ sessions = <<>>
    /\ library \in TraceLibraries
    /\ prev = <<>>
    /\ arg = NoRequest
    /\ resp = NoRequest

NextTrace ==
    \/ \E s \in {TaliskerInput, ObanInput} :
          Len(sessions) < MaxTrace /\ add_session(s)
    \/ next_session
    \/ \E q \in TraceQueries : search_whisky(q)

SpecTrace == InitTrace /\ [][NextTrace]_vars

TaliskerQuery == <<"t","a","l","i","s","k","e","r">>

FirstSubmitted ==
    arg.op = "add_session" /\ prev = <<>> /\ arg.session = TaliskerInput

SecondSubmitted ==
    arg.op = "add_session" /\ prev = <<StoredTalisker>> /\ arg.session = ObanInput

AfterBoth == prev = <<StoredTalisker, StoredOban>> /\ sessions = prev

LocalTalisker ==
    [whisky |-> Talisker10, region |-> None, rrp |-> None, image_url |-> None,
     source |-> "local"]

\* C11 as stated: from the empty registry, submitting "Talisker 10" hosted by
\* "brass" stores id "I:I" and host "Braas"; then submitting "Oban 14" hosted
\* by "Joess" gets "I:II"; the preview then reports "I:III"; and the search
\* for "talisker" returns exactly one result, local, "Talisker 10".
C11_EndToEnd ==
    /\ FirstSubmitted =>
          (resp.session = StoredTalisker /\ sessions = <<StoredTalisker>>)
    /\ SecondSubmitted =>
          (resp.session = StoredOban /\ sessions = <<StoredTalisker, StoredOban>>)
    /\ (AfterBoth /\ arg.op = "next_session") =>
          resp.id = <<"I",":","I","I","I">>
    /\ (AfterBoth /\ arg.op = "search_whisky" /\ arg.q = TaliskerQuery) =>
          resp.results = <<LocalTalisker>>

\* C11 amended: the same trace, the search for "talisker" returning exactly
\* one local result, "Talisker 10", as its first entry, followed only by
\* library entries for other names containing "talisker"; it is the only
\* result when the library holds no such other name.
C11_EndToEndLibrary ==
    /\ FirstSubmitted =>
          (resp.session = StoredTalisker /\ sessions = <<StoredTalisker>>)
    /\ SecondSubmitted =>
          (resp.session = StoredOban /\ sessions = <<StoredTalisker, StoredOban>>)
    /\ (AfterBoth /\ arg.op = "next_session") =>
          resp.id = <<"I",":","I","I","I">>
    /\ (AfterBoth /\ arg.op = "search_whisky" /\ arg.q = TaliskerQuery) =>
          /\ Len(resp.results) >= 1
          /\ resp.results[1] = LocalTalisker
          /\ \A k \in 2..Len(resp.results) :
                /\ resp.results[k].source = "library"
                /\ lower(resp.results[k].whisky) # lower(Talisker10)
                /\ Contains(TaliskerQuery, lower(resp.results[k].whisky))
          /\ (\A j \in 1..Len(library) :
                 Contains(TaliskerQuery, lower(library[j].whisky))
                    => lower(library[j].whisky) = lower(Talisker10))
                => Len(resp.results) = 1

C11_Witness ==
    /\ AfterBoth
    /\ arg.op = "search_whisky"
    /\ arg.q = TaliskerQuery
    /\ resp.results = <<LocalTalisker>>
    /\ library # <<>>
    /\ \E j \in 1..Len(library) : lower(library[j].whisky) = lower(Talisker10)

-----------------------------------------------------------------------------
(* SpecRoman: int_to_roman and roman_to_int applied to an input and then to *)
(* the other's output                                                       *)

MaxN == 40

Alphabet == { ROMAN[i] : i \in 1..Len(ROMAN) }

OtherTokens ==
    { <<>>, None, <<"i","v">>, <<"I","I","I","I">>, <<"X","I","I","I">>,
      <<" ","I">>, <<"I"," ">>, <<"0">>, <<"1">>, <<"1","3">>, <<"-","1">>,
      <<"I",":","I">>, <<"I","L">>, <<"x">>, <<"V","V">> }

RomanInputs ==
    { [op |-> "int_to_roman", n |-> n] : n \in (0 - MaxN)..MaxN }
        \cup { [op |-> "roman_to_int", r |-> r] : r \in Alphabet \cup OtherTokens }

InitRoman ==
    /\ sessions = <<>>
    /\ library = <<>>
    /\ prev = <<>>
    /\ arg \in RomanInputs
    /\ resp = NoRequest

EncodeFirst ==
    /\ arg.op = "int_to_roman"
    /\ resp = NoRequest
    /\ resp' = [op |-> "int_to_roman", roman |-> int_to_roman(arg.n)]
    /\ UNCHANGED <<sessions, library, prev, arg>>

DecodeBack ==
    /\ arg.op = "int_to_roman"
    /\ resp.op = "int_to_roman"
    /\ resp' = [op |-> "roman_to_int", roman |-> resp.roman,
                n |-> roman_to_int(resp.roman)]
    /\ UNCHANGED <<sessions, library, prev, arg>>

DecodeFirst ==
    /\ arg.op = "roman_to_int"
    /\ resp = NoRequest
    /\ resp' = [op |-> "roman_to_int", n |-> roman_to_int(arg.r)]
    /\ UNCHANGED <<sessions, library, prev, arg>>

EncodeBack ==
    /\ arg.op = "roman_to_int"
    /\ resp.op = "roman_to_int"
    /\ resp' = [op |-> "int_to_roman", n |-> resp.n,
                roman |-> int_to_roman(resp.n)]
    /\ UNCHANGED <<sessions, library, prev, arg>>

NextRoman == EncodeFirst \/ DecodeBack \/ DecodeFirst \/ EncodeBack

SpecRoman == InitRoman /\ [][NextRoman]_vars

DigitChars == { Digits[i] : i \in 1..Len(Digits) }

DigitValue(c) == CHOOSE d \in 0..9 : Digits[d + 1] = c

RECURSIVE NatValue(_)
NatValue(s) ==
    IF Len(s) = 0 THEN 0
    ELSE 10 * NatValue(SubSeq(s, 1, Len(s) - 1)) + DigitValue(s[Len(s)])

IsNatString(s) ==
    /\ Len(s) >= 1
    /\ \A i \in 1..Len(s) : s[i] \in DigitChars
    /\ (Len(s) > 1 => s[1] # "0")

\* s is the decimal string of n
DecimalOf(s, n) ==
    IF n < 0
    THEN /\ Len(s) >= 2
         /\ s[1] = "-"
         /\ IsNatString(Tail(s))
         /\ NatValue(Tail(s)) = 0 - n
    ELSE IsNatString(s) /\ NatValue(s) = n

\* C12: decoding the encoding of n gives n for n in 1..12, and encoding the
\* decoding of a token of the alphabet gives the token; for n outside 1..12
\* the encoding is the decimal string of n; and decoding any token outside
\* the alphabet, such a decimal string included, gives 0.
C12_RoundTrip ==
    /\ (arg.op = "int_to_roman" /\ resp.op = "int_to_roman") =>
          IF arg.n \in 1..12
          THEN resp.roman \in Alphabet
          ELSE DecimalOf(resp.roman, arg.n)
    /\ (arg.op = "int_to_roman" /\ resp.op = "roman_to_int") =>
          resp.n = (IF arg.n \in 1..12 THEN arg.n ELSE 0)
    /\ (arg.op = "roman_to_int" /\ resp.op = "roman_to_int") =>
          IF arg.r \in Alphabet THEN resp.n \in 1..12 ELSE resp.n = 0
    /\ (arg.op = "roman_to_int" /\ resp.op = "int_to_roman") =>
          (arg.r \in Alphabet => resp.roman = arg.r)

C12_Witness ==
    /\ arg.op = "int_to_roman"
    /\ arg.n = 13
    /\ resp.op = "roman_to_int"
    /\ resp.roman = <<"1","3">>
    /\ resp.n = 0

-----------------------------------------------------------------------------
(* Allocation over a registry whose last valid id is followed by malformed *)
(* ids that contain the separator                                           *)

LastValidIndex(ss) ==
    CHOOSE i \in 1..Len(ss) :
        ValidId(ss[i].id) /\ \A j \in (i + 1)..Len(ss) : ~ValidId(ss[j].id)

MalformedTail(ss) ==
    /\ HasValid(ss)
    /\ LastValidIndex(ss) < Len(ss)
    /\ \A j \in (LastValidIndex(ss) + 1)..Len(ss) :
          Truthy(ss[j].id) /\ Contains(<<":">>, ss[j].id)

\* C13: when the record with the valid id (r, s) is followed only by records
\* whose ids contain the separator but do not decode to two non-zero
\* components, next-id allocation still returns the successor of (r, s), and
\* not "I:I".
C13_SkipsMalformedIds ==
    (resp.op = "next_session" /\ MalformedTail(prev)) =>
        /\ resp.id # <<"I",":","I">>
        /\ resp.id = Successor(Decoded(LastValid(prev))[1],
                               Decoded(LastValid(prev))[2])

-----------------------------------------------------------------------------
(* SpecMutate: the three handlers that write the registry, the update able *)
(* to change a session's id                                                 *)

MaxMutate == 2

MutateInputs ==
    { Sess(None, <<"B","o","b">>, <<"O","b">>, None, None, None),
      Sess(None, <<"B","o","b">>, None, None, None, None) }

MutateIds == { <<"I",":","I">>, <<"I",":","I","I">> }

MutatePatches ==
    { "id" :> <<"I","I",":","I">>, "id" :> <<"I",":","I">>,
      "region" :> <<"I","s","l","a","y">> }

NextMutate ==
    \/ \E s \in MutateInputs : Len(sessions) < MaxMutate /\ add_session(s)
    \/ \E id \in MutateIds, p \in MutatePatches : update_session(id, p)
    \/ \E f \in [1..Len(sessions) -> Fetched] : enrich_all(f)

SpecMutate == Init /\ [][NextMutate]_vars

\* the (round, ordinal) pairs of the sessions with a valid id, in file order
ValidKeys(ss) ==
    LET idx == { i \in 1..Len(ss) : ValidId(ss[i].id) }
    IN  [i \in idx |-> Decoded(ss[i].id)]

\* C14: after every add, update and enrichment from the empty registry, the
\* sessions with a valid id appear in the file in ascending (round, ordinal)
\* order, also after an update whose patch changes a session's id.
C14_ValidIdsAscending ==
    \A i \in DOMAIN ValidKeys(sessions), j \in DOMAIN ValidKeys(sessions) :
        i < j => ~PairLess(ValidKeys(sessions)[j], ValidKeys(sessions)[i])

-----------------------------------------------------------------------------
(* SpecAuto: submissions that all omit the id, past round XII *)

MaxAuto == 86

AutoInput == Sess(None, <<"B","o","b">>, <<"O","b">>, None, None, None)

NextAuto ==
    \/ Len(sessions) < MaxAuto /\ add_session(AutoInput)
    \/ next_session

SpecAuto == Init /\ [][NextAuto]_vars

\* C15: from the empty registry, submissions that all omit the id are given
\* pairwise distinct ids, each decoding to two non-zero components, also once
\* round XII, ordinal VII has been given out.
C15_AutoIdsDistinctValid ==
    /\ \A i \in 1..Len(sessions) : ValidId(sessions[i].id)
    /\ \A i \in 1..Len(sessions), j \in 1..Len(sessions) :
          i # j => sessions[i].id # sessions[j].id

-----------------------------------------------------------------------------
(* Host of a patched session *)

\* C16: an update normalises the host exactly when its patch sets host: with
\* host in the patch the stored and the returned session carry the canonical
\* host; with no host in the patch the host of every stored session is the
\* same as before the update.
C16_UpdateNormalisesHostIffSet ==
    (arg.op = "update_session" /\ resp.status = 200) =>
        IF "host" \in DOMAIN arg.updates
        THEN /\ resp.session.host = normalise_host(arg.updates.host)
             /\ \E i \in 1..Len(sessions) :
                   /\ sessions[i] = resp.session
                   /\ sessions[i].host = normalise_host(arg.updates.host)
        ELSE /\ Len(sessions) = Len(prev)
             /\ \A i \in 1..Len(sessions) : sessions[i].host = prev[i].host

-----------------------------------------------------------------------------
(* What enrichment leaves alone *)

\* a session enrichment passes over: no whisky, or all three fields populated
Skippable(s) ==
    \/ ~Truthy(s.whisky)
    \/ (Truthy(s.image_url) /\ TruthyNum(s.rrp) /\ Truthy(s.dm_url))

SameOutsideEnrichment(a, b) ==
    /\ a.id = b.id
    /\ a.whisky = b.whisky
    /\ a.date = b.date
    /\ a.region = b.region

\* C18: enrich-all changes nothing in the file but image_url, rrp
\* and dm_url of eligible sessions: the number and order of the sessions and
\* their id, host, whisky, date and region are the same after as before; and
\* no operation removes a session.
C18_EnrichFrame ==
    /\ Len(sessions) >= Len(prev)
    /\ arg.op = "enrich_all" =>
          /\ Len(sessions) = Len(prev)
          /\ \A i \in 1..Len(prev) :
                /\ SameOutsideEnrichment(sessions[i], prev[i])
                /\ sessions[i].host = prev[i].host
                /\ Skippable(prev[i]) => sessions[i] = prev[i]

\* every lookup of the run returned an image, a price and a link
AllLookupsFull ==
    \A i \in 1..Len(prev) : ~Skippable(prev[i]) =>
        /\ arg.results[i].found
        /\ Truthy(arg.results[i].image_url)
        /\ TruthyNum(arg.results[i].price)
        /\ Truthy(arg.results[i].dm_url)

-----------------------------------------------------------------------------
(* SpecBatch: enrich_all one statement at a time: the load, one iteration *)
(* of the loop per session, the save                                       *)

MaxBatch == 2

Running == arg.op = "enrich_all" /\ arg.pc = "loop"

BatchAdd ==
    /\ ~Running
    /\ \E s \in EnrichInputs : Len(sessions) < MaxBatch /\ add_session(s)

\* data = load_data()
enrich_load ==
    /\ ~Running
    /\ prev' = sessions
    /\ arg' = [op |-> "enrich_all", pc |-> "loop",
               acc |-> [i |-> 1, data |-> load_data(sessions), enriched |-> 0,
                        failed |-> 0, status |-> <<>>],
               looked |-> <<>>, saves |-> 0]
    /\ resp' = NoRequest
    /\ UNCHANGED <<sessions, library>>

\* one iteration of the for loop; looked lists the sessions looked up
enrich_iterate ==
    /\ Running
    /\ arg.acc.i <= Len(arg.acc.data)
    /\ \E f \in Fetched :
          \E a \in {enrich_step(arg.acc, f)} :
              arg' = [arg EXCEPT
                        !.acc = a,
                        !.looked = IF a.status[arg.acc.i] = "skipped" THEN @
                                   ELSE Append(@, arg.acc.i)]
    /\ UNCHANGED <<sessions, library, prev, resp>>

\* save_data(data) and the response
enrich_save ==
    /\ Running
    /\ arg.acc.i > Len(arg.acc.data)
    /\ sessions' = arg.acc.data
    /\ arg' = [arg EXCEPT !.pc = "done", !.saves = @ + 1]
    /\ resp' = [op |-> "enrich_all", status |-> 200, enriched |-> arg.acc.enriched,
                failed |-> arg.acc.failed]
    /\ UNCHANGED <<library, prev>>

NextBatch == BatchAdd \/ enrich_load \/ enrich_iterate \/ enrich_save

SpecBatch == Init /\ [][NextBatch]_vars

\* the sessions of the file enrich-all has to look up
ToLookUp(ss) == { i \in 1..Len(ss) : ~Skippable(ss[i]) }

\* C20: enrich-all goes through the sessions in file order and looks each
\* eligible session up exactly once; the counts it returns add up to the
\* number of eligible sessions; and it writes the file exactly once, after
\* the last session has been processed.
C20_OnePassOneSave ==
    arg.op = "enrich_all" =>
        /\ Len(arg.acc.status) = arg.acc.i - 1
        /\ \A k \in 1..Len(arg.looked), l \in 1..Len(arg.looked) :
              k < l => arg.looked[k] < arg.looked[l]
        /\ { arg.looked[k] : k \in 1..Len(arg.looked) } =
              { i \in ToLookUp(prev) : i < arg.acc.i }
        /\ arg.pc = "loop" => (arg.saves = 0 /\ sessions = prev)
        /\ arg.pc = "done" =>
              /\ arg.saves = 1
              /\ arg.acc.i = Len(prev) + 1
              /\ sessions = arg.acc.data
              /\ resp.enriched + resp.failed = Cardinality(ToLookUp(prev))
              /\ Len(arg.looked) = Cardinality(ToLookUp(prev))

C20_Witness ==
    /\ arg.op = "enrich_all"
    /\ arg.pc = "done"
    /\ Len(prev) = 2
    /\ arg.looked = <<1, 2>>
    /\ resp.enriched = 1
    /\ resp.failed = 1
    /\ sessions # prev

-----------------------------------------------------------------------------
(* SpecRace: two callers whose requests run between load_data and          *)
(* save_data of each other. arg.calls[c] is caller c's request in progress  *)
(* with the file content it loaded; resp.done lists the completed requests  *)
(* in the order of their saves, each with whether its save wrote a         *)
(* completed add's session out of the file; arg.overlap records whether a   *)
(* request ever began while another was in progress.                        *)

MaxCalls == 4

Callers == 1..2

RaceInput == Sess(None, <<"B","o","b">>, <<"O","b">>, None, None, None)

RaceFetched == <<[url |-> <<"/new">>, price |-> <<"4","5">>, image_url |-> NewImage]>>

Idle == [pc |-> "idle"]

InitRace ==
    /\ sessions = <<>>
    /\ library = <<>>
    /\ prev = <<>>
    /\ arg = [op |-> "race", calls |-> [c \in Callers |-> Idle], begun |-> 0,
              overlap |-> FALSE]
    /\ resp = [op |-> "race", done |-> <<>>]

\* how many completed adds have no session in file ss
Missing(ss, done) ==
    Cardinality({ k \in 1..Len(done) : done[k].op = "add_session" })
        - Cardinality({ i \in 1..Len(ss) : ss[i].whisky = RaceInput.whisky })

\* some completed add's session is missing from file ss
LostAdd(ss, done) == Missing(ss, done) > 0

Begin(c, call) ==
    /\ arg.calls[c] = Idle
    /\ arg.begun < MaxCalls
    /\ arg' = [arg EXCEPT
                 !.calls[c] = call,
                 !.begun = @ + 1,
                 !.overlap = @ \/ \E d \in Callers \ {c} : arg.calls[d] # Idle]
    /\ UNCHANGED <<sessions, library, prev, resp>>

End(c, saved, entry) ==
    /\ sessions' = saved
    /\ prev' = sessions
    /\ arg' = [arg EXCEPT !.calls[c] = Idle]
    /\ resp' = [resp EXCEPT !.done =
                  Append(@, entry @@ [caller |-> c, status |-> 200,
                                      lost |-> Missing(saved, Append(@, entry))
                                                  > Missing(sessions, @)])]
    /\ UNCHANGED library

\* add_session up to and including data = load_data()
add_load(c) ==
    Begin(c, [pc |-> "loaded", op |-> "add_session", session |-> RaceInput,
              file |-> sessions])

\* add_session from the loaded data to save_data and the response
add_save(c) ==
    /\ arg.calls[c] # Idle
    /\ arg.calls[c].op = "add_session"
    /\ \E r \in {add_stored(arg.calls[c].file, arg.calls[c].session)} :
          End(c, r.saved, [op |-> "add_session", id |-> r.session.id])

\* enrich_all up to and including data = load_data()
enrich_all_load(c) ==
    Begin(c, [pc |-> "loaded", op |-> "enrich_all", file |-> sessions])

\* enrich_all from the loaded data to save_data and the response
enrich_all_save(c) ==
    /\ arg.calls[c] # Idle
    /\ arg.calls[c].op = "enrich_all"
    /\ \E r \in {enrich_all_result(arg.calls[c].file,
                                   [i \in 1..Len(arg.calls[c].file) |-> RaceFetched])} :
          End(c, r.data, [op |-> "enrich_all", id |-> None])

NextRace ==
    \E c \in Callers :
        add_load(c) \/ add_save(c) \/ enrich_all_load(c) \/ enrich_all_save(c)

SpecRace == InitRace /\ [][NextRace]_vars

\* two completed adds were given the same id
SameIdTwice(done) ==
    \E k \in 1..Len(done), l \in 1..Len(done) :
        /\ k < l
        /\ done[k].op = "add_session"
        /\ done[l].op = "add_session"
        /\ done[k].id = done[l].id

====
